---- MODULE Spec2Model ----
(***************************************************************************)
(* Model of setup.py of faiss-wheels: the module-level configuration       *)
(* (BUILD_CUDA, PACKAGE_NAME, the _swigfaiss Extension), the CustomBuild    *)
(* command with its reordered sub_commands, and CustomBuildExt (run,        *)
(* build_extensions, _remove_flag).                                         *)
(*                                                                         *)
(* Python strings whose characters the code inspects or rewrites           *)
(* (FAISS_LDFLAGS, CUDA_VERSION, PACKAGE_NAME) are sequences of one-        *)
(* character strings.  Strings that are only concatenated or compared      *)
(* (paths, library names, compiler arguments) are TLA+ strings; Chars      *)
(* gives the spelling of those on which the code does a substring test.    *)
(* An optional value (None or a value) is <<>> or <<value>>.               *)
(***************************************************************************)
EXTENDS Naturals, Sequences, FiniteSets, TLC

VARIABLES
    environ,            \* os.environ: name -> <<>> (unset) or <<value>>
    platform,           \* distutils.util.get_platform()
    opt_libraries,      \* build_ext --libraries after finalize_options
    opt_link_objects,   \* build_ext --link-objects: <<>> (None) or <<list>>
    toolchain,          \* compiler command lists as customize_compiler set them
    BUILD_CUDA,         \* module global, line 9
    PACKAGE_NAME,       \* module global, lines 10-12
    swigfaiss,          \* the _swigfaiss Extension, lines 74-97
    include_dirs,       \* CustomBuildExt.include_dirs
    libraries,          \* CustomBuildExt.libraries
    link_objects,       \* CustomBuildExt.link_objects: <<>> (None) or <<list>>
    compiler,           \* self.compiler.compiler
    compiler_cxx,       \* self.compiler.compiler_cxx
    compiler_so,        \* self.compiler.compiler_so
    pc,                 \* position of the build
    idx,                \* index of CustomBuild.run in sub_commands
    ran,                \* sub-commands started, in order
    compiled,           \* <<>> or <<lists the base build_extensions compiled with>>
    packaged,           \* <<>> or <<whether build_py found the swig wrapper>>
    error,              \* "none" or the exception that ended the build
    before,             \* command lists before the latest _remove_flag call
    lastFlag,           \* <<>> or <<flag of the latest _remove_flag call>>
    calls               \* number of _remove_flag calls made

vars == <<environ, platform, opt_libraries, opt_link_objects, toolchain,
          BUILD_CUDA, PACKAGE_NAME, swigfaiss, include_dirs, libraries,
          link_objects, compiler, compiler_cxx, compiler_so, pc, idx, ran,
          compiled, packaged, error, before, lastFlag, calls>>

inputs == <<environ, platform, opt_libraries, opt_link_objects, toolchain>>
moduleVars == <<BUILD_CUDA, PACKAGE_NAME, swigfaiss>>
linkVars == <<include_dirs, libraries, link_objects>>
compilerVars == <<compiler, compiler_cxx, compiler_so>>
removeVars == <<before, lastFlag, calls>>

(***************************************************************************)
(* Bounds of the input families.                                           *)
(***************************************************************************)
MaxLdLen == 3
MaxVerLen == 3
MaxArgs == 3
MaxCalls == 2

RECURSIVE SeqsUpTo(_, _)
SeqsUpTo(S, n) ==
    IF n = 0 THEN {<<>>}
    ELSE LET shorter == SeqsUpTo(S, n - 1)
         IN  shorter \cup {Append(s, x) : s \in {t \in shorter : Len(t) = n - 1}, x \in S}

(***************************************************************************)
(* Python string and list primitives, as the interpreter computes them.    *)
(***************************************************************************)
Whitespace == {" ", "\t"}

\* sub in s, for str
Contains(sub, s) ==
    \E i \in 0..Len(s) : i + Len(sub) <= Len(s) /\ SubSeq(s, i + 1, i + Len(sub)) = sub

\* x in list
InList(x, l) == \E i \in 1..Len(l) : l[i] = x

\* str.split() with no separator: runs of whitespace separate, no empty tokens
RECURSIVE SplitFrom(_, _, _, _)
SplitFrom(s, i, cur, out) ==
    IF i > Len(s)
    THEN IF Len(cur) = 0 THEN out ELSE Append(out, cur)
    ELSE IF s[i] \in Whitespace
         THEN SplitFrom(s, i + 1, <<>>, IF Len(cur) = 0 THEN out ELSE Append(out, cur))
         ELSE SplitFrom(s, i + 1, Append(cur, s[i]), out)

\* str.split(' '): every single space separates, empty tokens are kept
RECURSIVE SplitSpaceFrom(_, _, _, _)
SplitSpaceFrom(s, i, cur, out) ==
    IF i > Len(s)
    THEN Append(out, cur)
    ELSE IF s[i] = " "
         THEN SplitSpaceFrom(s, i + 1, <<>>, Append(out, cur))
         ELSE SplitSpaceFrom(s, i + 1, Append(cur, s[i]), out)

SplitOnSpace(s) == SplitSpaceFrom(s, 1, <<>>, <<>>)

Split(s) == SplitFrom(s, 1, <<>>, <<>>)

\* str.strip()
RECURSIVE Strip(_)
Strip(s) ==
    IF Len(s) = 0 THEN s
    ELSE IF s[1] \in Whitespace THEN Strip(Tail(s))
    ELSE IF s[Len(s)] \in Whitespace THEN Strip(SubSeq(s, 1, Len(s) - 1))
    ELSE s

\* str.replace(old, '', 1) for a one-character old: only the first occurrence
RECURSIVE ReplaceFirst(_, _)
ReplaceFirst(s, old) ==
    IF Len(s) = 0 THEN s
    ELSE IF s[1] = old THEN Tail(s)
    ELSE <<s[1]>> \o ReplaceFirst(Tail(s), old)

\* str.replace(old, '') for a one-character old: every occurrence, left to right
RECURSIVE Replace(_, _)
Replace(s, old) ==
    IF Len(s) = 0 THEN s
    ELSE IF s[1] = old THEN Replace(Tail(s), old)
    ELSE <<s[1]>> \o Replace(Tail(s), old)

\* list.remove(x): drops the first occurrence
RECURSIVE ListRemove(_, _)
ListRemove(l, x) ==
    IF Len(l) = 0 THEN l
    ELSE IF l[1] = x THEN Tail(l)
    ELSE <<l[1]>> \o ListRemove(Tail(l), x)

\* os.getenv(name) and os.getenv(name, default)
Getenv(name) == environ[name]
GetenvOr(name, default) == IF Len(environ[name]) = 0 THEN default ELSE environ[name][1]

(***************************************************************************)
(* Spelling of the strings the code searches in.                           *)
(***************************************************************************)
StrictPrototypes == "-Wstrict-prototypes"
Shorten64 == "-Wshorten-64-to-32"

Chars ==
    [s \in {"gcc", "g++", "clang", "cc", "x86_64-linux-gnu-gcc", "-O2",
            StrictPrototypes, Shorten64,
            "linux-x86_64", "macosx-10.9-x86_64", "win-amd64"} |->
        CASE s = "gcc" -> <<"g", "c", "c">>
          [] s = "g++" -> <<"g", "+", "+">>
          [] s = "clang" -> <<"c", "l", "a", "n", "g">>
          [] s = "cc" -> <<"c", "c">>
          [] s = "x86_64-linux-gnu-gcc" ->
                <<"x", "8", "6", "_", "6", "4", "-", "l", "i", "n", "u", "x", "-",
                  "g", "n", "u", "-", "g", "c", "c">>
          [] s = "-O2" -> <<"-", "O", "2">>
          [] s = StrictPrototypes ->
                <<"-", "W", "s", "t", "r", "i", "c", "t", "-", "p", "r", "o", "t", "o",
                  "t", "y", "p", "e", "s">>
          [] s = Shorten64 ->
                <<"-", "W", "s", "h", "o", "r", "t", "e", "n", "-", "6", "4", "-", "t",
                  "o", "-", "3", "2">>
          [] s = "linux-x86_64" ->
                <<"l", "i", "n", "u", "x", "-", "x", "8", "6", "_", "6", "4">>
          [] s = "macosx-10.9-x86_64" ->
                <<"m", "a", "c", "o", "s", "x", "-", "1", "0", ".", "9", "-", "x", "8",
                  "6", "_", "6", "4">>
          [] s = "win-amd64" -> <<"w", "i", "n", "-", "a", "m", "d", "6", "4">>]

(***************************************************************************)
(* Module level, lines 9-12 and 74-97.                                     *)
(***************************************************************************)
FaissCu == <<"f", "a", "i", "s", "s", "-", "c", "u">>
FaissCpu == <<"f", "a", "i", "s", "s", "-", "c", "p", "u">>
DefaultCudaVersion == <<"7", ".", "5">>

BuildCuda == Len(environ["FAISS_BUILD_CUDA"]) > 0

\* 'faiss-cu%s' % (version.replace('.', '') if build_cuda else 'faiss-cpu')
PackageNameMisparsed(build_cuda, version) ==
    FaissCu \o (IF build_cuda THEN Replace(version, ".") ELSE FaissCpu)

PackageName(build_cuda, version) ==
    IF build_cuda THEN FaissCu \o Replace(version, ".") ELSE FaissCpu

\* swig_opts with the platform test inverted
SwigOptsInverted(faiss_include, cuda_home, plat, build_cuda) ==
    <<"-c++", "-Doverride=", "-I" \o faiss_include, "-I" \o cuda_home \o "/include">>
    \o (IF Contains(<<"m", "a", "c", "o", "s">>, Chars[plat]) THEN <<"-DSWIGWORDSIZE64">> ELSE <<>>)
    \o (IF build_cuda THEN <<"-DGPU_WRAPPER">> ELSE <<>>)

SwigOpts(faiss_include, cuda_home, plat, build_cuda) ==
    <<"-c++", "-Doverride=", "-I" \o faiss_include, "-I" \o cuda_home \o "/include">>
    \o (IF Contains(<<"m", "a", "c", "o", "s">>, Chars[plat]) THEN <<>> ELSE <<"-DSWIGWORDSIZE64">>)
    \o (IF build_cuda THEN <<"-DGPU_WRAPPER">> ELSE <<>>)

Extension(faiss_include, cuda_home, plat, build_cuda) ==
    [name |-> "faiss._swigfaiss",
     sources |-> <<"python/swigfaiss.i">>,
     library_dirs |-> <<cuda_home \o "/lib64">>,
     include_dirs |-> <<faiss_include, cuda_home \o "/include">>,
     extra_compile_args |-> <<"-std=c++11", "-mavx2", "-mf16c", "-msse4", "-mpopcnt",
                              "-m64", "-Wno-sign-compare", "-fopenmp">>,
     extra_link_args |-> <<"-fopenmp">>,
     swig_opts |-> SwigOpts(faiss_include, cuda_home, plat, build_cuda)]

NoExtension ==
    [name |-> "", sources |-> <<>>, library_dirs |-> <<>>, include_dirs |-> <<>>,
     extra_compile_args |-> <<>>, extra_link_args |-> <<>>, swig_opts |-> <<>>]

(***************************************************************************)
(* setup(), lines 99-120, and CustomBuild, lines 22-30.                    *)
(***************************************************************************)
\* what setup() hands to the Distribution
Distribution ==
    [ext_modules |-> <<"faiss._swigfaiss">>, packages |-> <<"faiss">>,
     libraries |-> <<>>, scripts |-> <<>>]

\* build.has_ext_modules and friends
Predicate(p) ==
    CASE p = "has_ext_modules" -> Len(Distribution.ext_modules) > 0
      [] p = "has_pure_modules" -> Len(Distribution.packages) > 0
      [] p = "has_c_libraries" -> Len(Distribution.libraries) > 0
      [] p = "has_scripts" -> Len(Distribution.scripts) > 0

\* distutils' own order, which CustomBuild replaces
sub_commands_distutils ==
    << <<"build_py", "has_pure_modules">>, <<"build_clib", "has_c_libraries">>,
       <<"build_ext", "has_ext_modules">>, <<"build_scripts", "has_scripts">> >>

sub_commands ==
    << <<"build_ext", "has_ext_modules">>, <<"build_py", "has_pure_modules">>,
       <<"build_clib", "has_c_libraries">>, <<"build_scripts", "has_scripts">> >>

(***************************************************************************)
(* CustomBuildExt, lines 33-71.                                            *)
(***************************************************************************)
GpuLibraries == <<"cudart_static", "cublas_static", "culibos">>

\* the else branch of run with the BUILD_CUDA test dropped
DefaultLibrariesAlwaysGpu(build_cuda) == <<"faiss">> \o GpuLibraries

\* lines 48-52
DefaultLibraries(build_cuda) ==
    <<"faiss">> \o (IF build_cuda THEN GpuLibraries ELSE <<>>)

\* if link_flags: (None and '' are both false)
Truthy(link_flags) == Len(link_flags) > 0 /\ Len(link_flags[1]) > 0

\* lines 43-46
LinkObjectsWith(link_flags, objs) ==
    LET tokens == Split(link_flags)
        start == IF Len(objs) = 0 THEN <<>> ELSE objs[1]
    IN  <<start \o [i \in 1..Len(tokens) |-> Strip(tokens[i])]>>

\* lines 48-52 run whatever FAISS_LDFLAGS is
LibrariesAfterAdditive(link_flags, libs, build_cuda) ==
    libs \o DefaultLibraries(build_cuda)

\* libraries after lines 41-52
LibrariesAfter(link_flags, libs, build_cuda) ==
    IF Truthy(link_flags) THEN libs ELSE libs \o DefaultLibraries(build_cuda)

\* link_objects after lines 41-52
LinkObjectsAfter(link_flags, objs) ==
    IF Truthy(link_flags) THEN LinkObjectsWith(link_flags[1], objs) ELSE objs

\* if flag in args: args.remove(flag)
RemoveOnce(args, flag) == IF InList(flag, args) THEN ListRemove(args, flag) ELSE args

\* lines 70-71: while flag in args: args.remove(flag)
RECURSIVE RemoveWhile(_, _)
RemoveWhile(args, flag) ==
    IF InList(flag, args) THEN RemoveWhile(ListRemove(args, flag), flag) ELSE args

\* lines 65-71
RemoveFlag(lists, flag) ==
    [compiler |-> RemoveWhile(lists.compiler, flag),
     compiler_cxx |-> RemoveWhile(lists.compiler_cxx, flag),
     compiler_so |-> RemoveWhile(lists.compiler_so, flag)]

\* the test of line 61 written as "not clang"
IsNotClang(compiler_name) == ~Contains(<<"c", "l", "a", "n", "g">>, Chars[compiler_name])

\* line 61
IsGcc(compiler_name) ==
    \/ Contains(<<"g", "c", "c">>, Chars[compiler_name])
    \/ Contains(<<"g", "+", "+">>, Chars[compiler_name])

Lists == [compiler |-> compiler, compiler_cxx |-> compiler_cxx, compiler_so |-> compiler_so]

(***************************************************************************)
(* Actions.                                                                *)
(***************************************************************************)
\* import of setup.py: lines 9-12 and 74-97, then setup() runs "build"
LoadModule ==
    /\ pc = "load"
    /\ BUILD_CUDA' = BuildCuda
    /\ PACKAGE_NAME' = PackageName(BuildCuda, GetenvOr("CUDA_VERSION", DefaultCudaVersion))
    /\ swigfaiss' = Extension(GetenvOr("FAISS_INCLUDE", "/usr/local/include/faiss"),
                              GetenvOr("CUDA_HOME", "/usr/local/cuda"),
                              platform, BuildCuda)
    /\ pc' = "build"
    /\ UNCHANGED <<inputs, linkVars, compilerVars, idx, ran, compiled, packaged,
                   error, removeVars>>

\* build.run: for cmd_name in self.get_sub_commands(): self.run_command(cmd_name)
RunSubCommand ==
    /\ pc = "build"
    /\ IF idx > Len(sub_commands)
       THEN pc' = "done" /\ UNCHANGED <<idx, ran>>
       ELSE IF Predicate(sub_commands[idx][2])
            THEN pc' = sub_commands[idx][1] /\ ran' = Append(ran, sub_commands[idx][1])
                 /\ UNCHANGED idx
            ELSE pc' = "build" /\ idx' = idx + 1 /\ UNCHANGED ran
    /\ UNCHANGED <<inputs, moduleVars, linkVars, compilerVars, compiled, packaged,
                   error, removeVars>>

\* CustomBuildExt.run, lines 37-53, up to the call of build_extensions
CustomBuildExt_run ==
    /\ pc = "build_ext"
    /\ include_dirs' = Append(include_dirs, "numpy/core/include")
    /\ link_objects' = LinkObjectsAfter(Getenv("FAISS_LDFLAGS"), link_objects)
    /\ libraries' = LibrariesAfter(Getenv("FAISS_LDFLAGS"), libraries, BUILD_CUDA)
    /\ pc' = "build_extensions"
    /\ UNCHANGED <<inputs, moduleVars, compilerVars, idx, ran, compiled, packaged,
                   error, removeVars>>

\* CustomBuildExt.build_extensions, lines 55-63
build_extensions ==
    /\ pc = "build_extensions"
    /\ LET stripped == RemoveFlag(Lists, StrictPrototypes)
       IN  IF Len(stripped.compiler) = 0
           THEN \* self.compiler.compiler[0] on an empty list
                /\ compiler' = stripped.compiler
                /\ compiler_cxx' = stripped.compiler_cxx
                /\ compiler_so' = stripped.compiler_so
                /\ error' = "IndexError"
                /\ pc' = "failed"
                /\ UNCHANGED <<compiled, idx>>
           ELSE LET compiler_name == stripped.compiler[1]
                    final == IF IsGcc(compiler_name)
                             THEN RemoveFlag(stripped, Shorten64)
                             ELSE stripped
                IN  /\ compiler' = final.compiler
                    /\ compiler_cxx' = final.compiler_cxx
                    /\ compiler_so' = final.compiler_so
                    /\ compiled' = <<final>>
                    /\ idx' = idx + 1
                    /\ pc' = "build"
                    /\ UNCHANGED error
    /\ UNCHANGED <<inputs, moduleVars, linkVars, ran, packaged, removeVars>>

\* build_py: packages package_dir 'python', with the swig wrapper if it exists
build_py ==
    /\ pc = "build_py"
    /\ packaged' = <<Len(compiled) > 0>>
    /\ idx' = idx + 1
    /\ pc' = "build"
    /\ UNCHANGED <<inputs, moduleVars, linkVars, compilerVars, ran, compiled, error,
                   removeVars>>

\* one call of CustomBuildExt._remove_flag, lines 65-71
remove_flag(flag) ==
    /\ pc = "flags"
    /\ calls < MaxCalls
    /\ before' = Lists
    /\ compiler' = RemoveFlag(Lists, flag).compiler
    /\ compiler_cxx' = RemoveFlag(Lists, flag).compiler_cxx
    /\ compiler_so' = RemoveFlag(Lists, flag).compiler_so
    /\ lastFlag' = <<flag>>
    /\ calls' = calls + 1
    /\ UNCHANGED <<inputs, moduleVars, linkVars, pc, idx, ran, compiled, packaged, error>>

(***************************************************************************)
(* Input families.                                                         *)
(***************************************************************************)
Opt(S) == {<<>>} \cup {<<v>> : v \in S}

Flags == {StrictPrototypes, Shorten64, "-O2"}
CompilerNames == {"gcc", "g++", "clang", "cc", "x86_64-linux-gnu-gcc"}

\* customize_compiler: compiler is CC + CFLAGS, compiler_so adds CCSHARED
Toolchain(cc, cxx) == [compiler |-> cc, compiler_cxx |-> cxx, compiler_so |-> cc \o <<"-fPIC">>]

CxxLists ==
    {<<"g++">>, <<"clang", Shorten64, StrictPrototypes, Shorten64>>,
     <<"cc", StrictPrototypes, "-O2", StrictPrototypes>>}

SoLists ==
    {<<"gcc", "-fPIC">>, <<Shorten64, "-O2", Shorten64>>,
     <<StrictPrototypes, StrictPrototypes, "-O2", Shorten64>>}

InitWith(envs, plats, libs, objs, toolchains, start) ==
    /\ environ \in envs
    /\ platform \in plats
    /\ opt_libraries \in libs
    /\ opt_link_objects \in objs
    /\ toolchain \in toolchains
    /\ BUILD_CUDA = FALSE
    /\ PACKAGE_NAME = <<>>
    /\ swigfaiss = NoExtension
    /\ include_dirs = <<"/usr/include/python3">>
    /\ libraries = opt_libraries
    /\ link_objects = opt_link_objects
    /\ compiler = toolchain.compiler
    /\ compiler_cxx = toolchain.compiler_cxx
    /\ compiler_so = toolchain.compiler_so
    /\ pc = start
    /\ idx = 1
    /\ ran = <<>>
    /\ compiled = <<>>
    /\ packaged = <<>>
    /\ error = "none"
    /\ before = Lists
    /\ lastFlag = <<>>
    /\ calls = 0

DefaultEnv ==
    [FAISS_BUILD_CUDA |-> <<>>, CUDA_VERSION |-> <<>>, FAISS_INCLUDE |-> <<>>,
     CUDA_HOME |-> <<>>, FAISS_LDFLAGS |-> <<>>]

DefaultToolchain == Toolchain(<<"gcc", StrictPrototypes, Shorten64>>, <<"g++">>)

\* the build under every combination of a few values of each input
Init ==
    InitWith([FAISS_BUILD_CUDA : Opt({<<>>, <<"1">>}),
              CUDA_VERSION : Opt({<<"9", ".", "0">>, <<"1", "0", ".", "1">>}),
              FAISS_INCLUDE : Opt({"/opt/faiss/include"}),
              CUDA_HOME : Opt({"/opt/cuda"}),
              FAISS_LDFLAGS : Opt({<<>>, <<" ">>, <<"a", " ", "b">>})],
             {"linux-x86_64", "macosx-10.9-x86_64", "win-amd64"},
             {<<>>, <<"m">>},
             Opt({<<>>, << <<"x", ".", "o">> >>}),
             {Toolchain(<<"gcc", StrictPrototypes, Shorten64>>, <<"g++">>),
              Toolchain(<<"clang", Shorten64, StrictPrototypes>>, <<"clang", Shorten64>>),
              Toolchain(<<"cc", StrictPrototypes, Shorten64>>, <<"cc">>),
              Toolchain(<<StrictPrototypes>>, <<"g++">>)},
             "load")

\* the build under every FAISS_LDFLAGS string up to MaxLdLen characters
InitLink ==
    InitWith([FAISS_BUILD_CUDA : Opt({<<"1">>}),
              CUDA_VERSION : {<<>>},
              FAISS_INCLUDE : {<<>>},
              CUDA_HOME : {<<>>},
              FAISS_LDFLAGS : Opt(SeqsUpTo({"a", "b", " ", "\t"}, MaxLdLen))],
             {"linux-x86_64"},
             {<<>>, <<"m">>},
             Opt({<<>>, << <<"x", ".", "o">> >>}),
             {DefaultToolchain},
             "load")

\* the build under every CUDA_VERSION string up to MaxVerLen characters
InitVersion ==
    InitWith([FAISS_BUILD_CUDA : Opt({<<>>, <<"1">>}),
              CUDA_VERSION : Opt(SeqsUpTo({"9", "0", "."}, MaxVerLen)),
              FAISS_INCLUDE : {<<>>},
              CUDA_HOME : {<<>>},
              FAISS_LDFLAGS : {<<>>}],
             {"linux-x86_64"},
             {<<>>},
             {<<>>},
             {DefaultToolchain},
             "load")

\* the build under every compiler command of up to MaxArgs words
InitCompiler ==
    InitWith({DefaultEnv},
             {"linux-x86_64"},
             {<<>>},
             {<<>>},
             {Toolchain(cc, cxx) : cc \in SeqsUpTo(CompilerNames \cup Flags, MaxArgs),
                                   cxx \in CxxLists},
             "load")

\* _remove_flag alone, on every compiler list of up to MaxArgs flags
InitFlags ==
    InitWith({DefaultEnv},
             {"linux-x86_64"},
             {<<>>},
             {<<>>},
             {[compiler |-> c, compiler_cxx |-> cxx, compiler_so |-> so] :
                 c \in SeqsUpTo(Flags, MaxArgs), cxx \in CxxLists, so \in SoLists},
             "flags")

Next ==
    \/ LoadModule
    \/ RunSubCommand
    \/ CustomBuildExt_run
    \/ build_extensions
    \/ build_py

NextFlags == \E flag \in Flags : remove_flag(flag)

Spec == Init /\ [][Next]_vars
SpecLink == InitLink /\ [][Next]_vars
SpecVersion == InitVersion /\ [][Next]_vars
SpecCompiler == InitCompiler /\ [][Next]_vars
SpecFlags == InitFlags /\ [][NextFlags]_vars

(***************************************************************************)
(* Vocabulary of the properties.                                           *)
(***************************************************************************)
Loaded == pc \notin {"load", "flags"}
LinkResolved == InList("build_ext", ran) /\ pc # "build_ext"
GpuPresent == Len(environ.FAISS_BUILD_CUDA) > 0
LdUnset == Len(environ.FAISS_LDFLAGS) = 0
LdSet == Len(environ.FAISS_LDFLAGS) = 1
LdString == environ.FAISS_LDFLAGS[1]
PriorObjects == IF Len(opt_link_objects) = 0 THEN <<>> ELSE opt_link_objects[1]
ObjectList == IF Len(link_objects) = 0 THEN <<>> ELSE link_objects[1]
AddedLibraries == SubSeq(libraries, Len(opt_libraries) + 1, Len(libraries))
DefaultNames == {"faiss", "cudart_static", "cublas_static", "culibos"}

\* the whitespace-separated tokens of s, read off the maximal runs of
\* non-whitespace characters
RunStarts(s) == {i \in 1..Len(s) : s[i] \notin Whitespace /\ (i = 1 \/ s[i - 1] \in Whitespace)}
RunEnds(s) == {i \in 1..Len(s) : s[i] \notin Whitespace /\ (i = Len(s) \/ s[i + 1] \in Whitespace)}
Kth(S, k) == CHOOSE x \in S : Cardinality({y \in S : y <= x}) = k
TokensOf(s) ==
    [k \in 1..Cardinality(RunStarts(s)) |-> SubSeq(s, Kth(RunStarts(s), k), Kth(RunEnds(s), k))]

Without(l, x) == SelectSeq(l, LAMBDA y : y # x)
Count(l, x) == Cardinality({i \in 1..Len(l) : l[i] = x})

(***************************************************************************)
(* C1                                                                      *)
(***************************************************************************)
\* C1 as stated: whenever FAISS_LDFLAGS is set (to any string, the empty one
\* included, and whatever link_objects held before), after run the link
\* objects are exactly the whitespace-split tokens of the string and no
\* default library has been added.
C1_TokensReplaceDefaults ==
    (LdSet /\ LinkResolved) =>
        /\ ObjectList = TokensOf(LdString)
        /\ \A i \in 1..Len(AddedLibraries) : AddedLibraries[i] \notin DefaultNames

\* C1 amended: for a non-empty FAISS_LDFLAGS, link_objects is its prior
\* content (None counting as empty) followed by the whitespace-split tokens
\* in order, and libraries is untouched; an empty FAISS_LDFLAGS is handled
\* like an unset one: link_objects untouched, default libraries appended.
C1_TokensAppendedNoDefaults ==
    (LdSet /\ LinkResolved) =>
        IF Len(LdString) > 0
        THEN /\ link_objects = <<PriorObjects \o TokensOf(LdString)>>
             /\ libraries = opt_libraries
        ELSE /\ link_objects = opt_link_objects
             /\ Len(AddedLibraries) > 0
             /\ AddedLibraries[1] = "faiss"

C1_Witness ==
    /\ LinkResolved
    /\ LdSet
    /\ LdString = <<"b", "\t", "a">>
    /\ Len(PriorObjects) = 1
    /\ Len(ObjectList) = 3

(***************************************************************************)
(* C2                                                                      *)
(***************************************************************************)
\* C2 as stated: whenever FAISS_BUILD_CUDA is present, the three GPU
\* libraries are in the link strategy and -DGPU_WRAPPER is in swig_opts,
\* whether or not FAISS_LDFLAGS is set.
C2_GpuAlwaysLinked ==
    (GpuPresent /\ LinkResolved) =>
        /\ InList("-DGPU_WRAPPER", swigfaiss.swig_opts)
        /\ \A l \in {"cudart_static", "cublas_static", "culibos"} : InList(l, libraries)

\* C2 amended: whenever FAISS_BUILD_CUDA is present, -DGPU_WRAPPER is in
\* swig_opts; the three GPU libraries are appended to libraries exactly when
\* FAISS_LDFLAGS is unset or empty, and with a non-empty FAISS_LDFLAGS run
\* adds no library at all.
C2_GpuLinkedUnlessExplicit ==
    /\ (GpuPresent /\ Loaded) => InList("-DGPU_WRAPPER", swigfaiss.swig_opts)
    /\ (GpuPresent /\ LinkResolved) =>
          IF LdUnset \/ Len(LdString) = 0
          THEN AddedLibraries = <<"faiss", "cudart_static", "cublas_static", "culibos">>
          ELSE AddedLibraries = <<>>

C2_Witness ==
    /\ GpuPresent
    /\ LinkResolved
    /\ LdSet
    /\ LdString = <<"a", " ", "b">>
    /\ InList("-DGPU_WRAPPER", swigfaiss.swig_opts)

(***************************************************************************)
(* C3                                                                      *)
(***************************************************************************)
\* C3: with FAISS_LDFLAGS unset, run appends 'faiss' to libraries, then the
\* three GPU runtime libraries if and only if FAISS_BUILD_CUDA is present,
\* and leaves link_objects as it was.
C3_DefaultLinkage ==
    (LdUnset /\ LinkResolved) =>
        /\ SubSeq(libraries, 1, Len(opt_libraries)) = opt_libraries
        /\ Len(AddedLibraries) >= 1
        /\ AddedLibraries[1] = "faiss"
        /\ IF GpuPresent
           THEN Tail(AddedLibraries) = <<"cudart_static", "cublas_static", "culibos">>
           ELSE Tail(AddedLibraries) = <<>>
        /\ link_objects = opt_link_objects

C3_Witness ==
    /\ LdUnset
    /\ LinkResolved
    /\ GpuPresent
    /\ Len(opt_libraries) = 1
    /\ Len(libraries) = 5
    /\ Len(opt_link_objects) = 1

(***************************************************************************)
(* C4                                                                      *)
(***************************************************************************)
\* C4: with FAISS_BUILD_CUDA present (any value, the empty one included),
\* PACKAGE_NAME is 'faiss-cu' followed by CUDA_VERSION with every dot
\* removed and all else kept in order; with CUDA_VERSION unset it is
\* 'faiss-cu75'.
C4_GpuPackageName ==
    (GpuPresent /\ Loaded) =>
        IF Len(environ.CUDA_VERSION) = 0
        THEN PACKAGE_NAME = <<"f", "a", "i", "s", "s", "-", "c", "u", "7", "5">>
        ELSE /\ SubSeq(PACKAGE_NAME, 1, 8) = <<"f", "a", "i", "s", "s", "-", "c", "u">>
             /\ SubSeq(PACKAGE_NAME, 9, Len(PACKAGE_NAME))
                    = Without(environ.CUDA_VERSION[1], ".")

C4_Witness ==
    /\ Loaded
    /\ environ.FAISS_BUILD_CUDA = << <<>> >>
    /\ environ.CUDA_VERSION = << <<".", "9", ".">> >>
    /\ Len(PACKAGE_NAME) = 9

(***************************************************************************)
(* C5                                                                      *)
(***************************************************************************)
\* C5: with FAISS_BUILD_CUDA absent, PACKAGE_NAME is 'faiss-cpu' whatever
\* CUDA_VERSION and the other variables are.
C5_CpuPackageName ==
    (~GpuPresent /\ Loaded) =>
        PACKAGE_NAME = <<"f", "a", "i", "s", "s", "-", "c", "p", "u">>

C5_Witness ==
    /\ ~GpuPresent
    /\ Loaded
    /\ Len(environ.CUDA_VERSION) = 1
    /\ Len(environ.FAISS_LDFLAGS) = 1
    /\ Len(PACKAGE_NAME) = 9

(***************************************************************************)
(* C6                                                                      *)
(***************************************************************************)
StrippedFrom(old, new, flag) ==
    /\ new = Without(old, flag)
    /\ ~InList(flag, old) => new = old
    /\ \A x \in Flags \cup CompilerNames \cup {"-fPIC"} :
          Count(new, x) = IF x = flag THEN 0 ELSE Count(old, x)

\* C6: after _remove_flag(flag) each of compiler, compiler_cxx and
\* compiler_so is the list it was with every occurrence of flag dropped and
\* everything else in its place (so a list without the flag is unchanged),
\* and stripping the same flag once more changes none of them.
C6_RemoveFlagIdempotentOrdered ==
    Len(lastFlag) = 1 =>
        /\ StrippedFrom(before.compiler, compiler, lastFlag[1])
        /\ StrippedFrom(before.compiler_cxx, compiler_cxx, lastFlag[1])
        /\ StrippedFrom(before.compiler_so, compiler_so, lastFlag[1])
        /\ RemoveFlag(Lists, lastFlag[1]) = Lists

\* a second call with the same flag, on a list that held it twice around
\* another flag
C6_Witness ==
    /\ calls = 2
    /\ lastFlag = <<Shorten64>>
    /\ toolchain.compiler = <<Shorten64, "-O2", Shorten64>>
    /\ before.compiler = <<"-O2">>
    /\ compiler = <<"-O2">>
    /\ compiler_so = <<StrictPrototypes, StrictPrototypes, "-O2">>

(***************************************************************************)
(* C7                                                                      *)
(***************************************************************************)
NoneHas(lists, flag) ==
    /\ ~InList(flag, lists.compiler)
    /\ ~InList(flag, lists.compiler_cxx)
    /\ ~InList(flag, lists.compiler_so)

OnlyStripped(lists, flag) ==
    /\ lists.compiler = Without(toolchain.compiler, flag)
    /\ lists.compiler_cxx = Without(toolchain.compiler_cxx, flag)
    /\ lists.compiler_so = Without(toolchain.compiler_so, flag)

\* C7 as stated: when the base build_extensions compiles,
\* -Wstrict-prototypes is gone from the three lists, and
\* -Wshorten-64-to-32 is gone whenever the detected compiler is not
\* clang and is kept when it is clang.
C7_StrippedUnlessClang ==
    Len(compiled) = 1 =>
        /\ Lists = compiled[1]
        /\ NoneHas(compiled[1], StrictPrototypes)
        /\ (compiled[1].compiler[1] \in CompilerNames \ {"clang"})
              => NoneHas(compiled[1], Shorten64)
        /\ compiled[1].compiler[1] = "clang"
              => OnlyStripped(compiled[1], StrictPrototypes)

\* C7 amended: -Wstrict-prototypes is always stripped from the three lists
\* (also when build_extensions then fails); -Wshorten-64-to-32 is stripped
\* exactly when the first word of the compiler command contains 'gcc' or
\* 'g++', and is kept for clang and for every other compiler (cc, ...); the
\* base build_extensions compiles with the lists so stripped.
GccLike == {"gcc", "g++", "x86_64-linux-gnu-gcc"}

C7_StrippedIffGcc ==
    /\ pc = "failed" => NoneHas(Lists, StrictPrototypes)
    /\ Len(compiled) = 1 =>
          /\ Lists = compiled[1]
          /\ NoneHas(compiled[1], StrictPrototypes)
          /\ IF compiled[1].compiler[1] \in GccLike
             THEN /\ NoneHas(compiled[1], Shorten64)
                  /\ compiled[1].compiler = Without(Without(toolchain.compiler, StrictPrototypes), Shorten64)
             ELSE OnlyStripped(compiled[1], StrictPrototypes)

C7_Witness ==
    /\ Len(compiled) = 1
    /\ toolchain.compiler = <<StrictPrototypes, "cc", Shorten64>>
    /\ compiler = <<"cc", Shorten64>>

(***************************************************************************)
(* C8                                                                      *)
(***************************************************************************)
\* C8: swig_opts starts with -c++, -Doverride= and the two -I paths; then
\* -DSWIGWORDSIZE64 is there if and only if the platform string does not
\* contain 'macos'; then -DGPU_WRAPPER is there if and only if
\* FAISS_BUILD_CUDA is present; the word-size flag comes first when both are.
C8_SwigOpts ==
    Loaded =>
        LET opts == swigfaiss.swig_opts
            inc == IF Len(environ.FAISS_INCLUDE) = 0 THEN "/usr/local/include/faiss"
                   ELSE environ.FAISS_INCLUDE[1]
            home == IF Len(environ.CUDA_HOME) = 0 THEN "/usr/local/cuda"
                    ELSE environ.CUDA_HOME[1]
            rest == SubSeq(opts, 5, Len(opts))
        IN  /\ Len(opts) >= 4
            /\ SubSeq(opts, 1, 4) = <<"-c++", "-Doverride=", "-I" \o inc, "-I" \o home \o "/include">>
            /\ InList("-DSWIGWORDSIZE64", opts) <=> platform # "macosx-10.9-x86_64"
            /\ InList("-DGPU_WRAPPER", opts) <=> GpuPresent
            /\ rest \in {<<>>, <<"-DSWIGWORDSIZE64">>, <<"-DGPU_WRAPPER">>,
                         <<"-DSWIGWORDSIZE64", "-DGPU_WRAPPER">>}

C8_Witness ==
    /\ Loaded
    /\ platform = "macosx-10.9-x86_64"
    /\ GpuPresent
    /\ Len(environ.CUDA_HOME) = 1
    /\ Len(swigfaiss.swig_opts) = 5

(***************************************************************************)
(* C9                                                                      *)
(***************************************************************************)
Position(cmd) ==
    CASE cmd = "build_ext" -> 1 [] cmd = "build_py" -> 2
      [] cmd = "build_clib" -> 3 [] cmd = "build_scripts" -> 4

\* C9: the build command starts its sub-commands in the order build_ext,
\* build_py, build_clib, build_scripts; build_py starts only after the
\* extension build has completed (so it packages the swig wrapper); and the
\* base build_ext.run is entered only with the link strategy resolved.
C9_ExtBeforePy ==
    /\ \A i, j \in 1..Len(ran) : i < j => Position(ran[i]) < Position(ran[j])
    /\ (pc = "build_py" \/ InList("build_py", ran)) => Len(compiled) = 1
    /\ Len(packaged) = 1 => packaged[1]
    /\ pc = "build_extensions" =>
          /\ Len(include_dirs) = 2
          /\ LdUnset => InList("faiss", libraries)
          /\ (LdSet /\ Len(LdString) > 0) => Len(link_objects) = 1
    /\ pc = "done" => ran = <<"build_ext", "build_py">>

C9_Witness ==
    /\ pc = "done"
    /\ packaged = <<TRUE>>
    /\ Len(ran) = 2

(***************************************************************************)
(* C10                                                                     *)
(***************************************************************************)
\* C10: no configurator operation raises, for every environment and every
\* content of the compiler command lists, lists made only of stripped
\* flags included.
C10_NoOperationRaises == error = "none"

====
